---- MODULE Spec2Model ----
(***************************************************************************)
(* Model of pkg/cmd/provisioning/azure/delete.go: the "delete" subcommand  *)
(* of ccoctl's Azure provider.  One invocation of deleteCmd is a linear    *)
(* sequence of blocking steps; every remote call is one action whose       *)
(* result is chosen by the provider.  The operator may re-invoke the       *)
(* command with the same flags once a run has ended.                        *)
(*                                                                         *)
(* Strings that the code concatenates or validates are sequences of        *)
(* one-character strings; "" is <<>>.  A *string is <<>> (nil) or <<v>>.    *)
(***************************************************************************)
EXTENDS Integers, Sequences, FiniteSets, TLC

VARIABLES
    flags,              \* the values the CLI flags were parsed to
    DeleteOpts,         \* the package variable DeleteOpts
    azure,              \* the provider's state: groups, identities, accounts
    pc,                 \* position of deleteCmd
    outcome,            \* "running", "success" (exit 0), "fatal" (log.Fatal), "panic"
    fatalErr,           \* what log.Fatal was given: <<context..., cause>>
    more,               \* listManagedIdentities.More()
    cursor,             \* identities of the listing the pager has returned
    managedIdentities,  \* the local slice of deleteManagedIdentities
    idx,                \* position of the delete loop in managedIdentities
    polls,              \* poll ticks PollUntilDone has made
    calls,              \* the steps this run has issued, with their results
    before,             \* the provider's state when this run started
    runs,               \* invocations so far
    prevOutcomes        \* outcomes of the earlier invocations

vars == <<flags, DeleteOpts, azure, pc, outcome, fatalErr, more, cursor,
          managedIdentities, idx, polls, calls, before, runs, prevOutcomes>>

----------------------------------------------------------------------------
(* Bounds of the model *)

MaxIdentities == 2
PageSize == 1
MaxPolls == 1
MaxRuns == 2

----------------------------------------------------------------------------
(* Strings *)

LowerLetters ==
    {"a","b","c","d","e","f","g","h","i","j","k","l","m",
     "n","o","p","q","r","s","t","u","v","w","x","y","z"}
Digits == {"0","1","2","3","4","5","6","7","8","9"}

Repeat(c, n) == [i \in 1..n |-> c]

\* the constants of the package that delete.go uses
oidcResourceGroupSuffix == <<"-", "o", "i", "d", "c">>
ownedAzureResourceTagKeyPrefix == <<"openshift.io_cloud-credential-operator">>
ownedAzureResourceTagValue == "owned"

MinStorageAccountNameLen == 3
MaxStorageAccountNameLen == 24

\* validateStorageAccountName: nil (TRUE) or an error (FALSE)
validateStorageAccountName(n) ==
    /\ Len(n) >= MinStorageAccountNameLen
    /\ Len(n) <= MaxStorageAccountNameLen
    /\ \A i \in 1..Len(n) : n[i] \in LowerLetters \cup Digits

\* fmt.Sprintf("%s_%s", ownedAzureResourceTagKeyPrefix, name)
OwnedTagKey(name) == ownedAzureResourceTagKeyPrefix \o <<"_">> \o name

----------------------------------------------------------------------------
(* Inputs *)

NameABC == <<"a", "b", "c">>
NameAB == <<"a", "b">>
Names == {NameABC, NameAB}
OtherName(n) == IF n = NameABC THEN NameAB ELSE NameABC

ResourceGroupOverrides == {<<>>, <<"r", "g">>}
StorageAccountOverrides ==
    {<<>>, <<"s", "t", "1">>, <<"s", "_", "A">>,
     Repeat("a", MaxStorageAccountNameLen + 1)}

FlagSets ==
    [Name : Names,
     Region : {"eastus"},
     SubscriptionID : {"sub"},
     OIDCResourceGroupName : ResourceGroupOverrides,
     StorageAccountName : StorageAccountOverrides,
     DeleteOIDCResourceGroup : BOOLEAN,
     DryRun : BOOLEAN]

\* the resource group and storage account the operator means by these flags
MeantGroup(f) ==
    IF f.OIDCResourceGroupName # <<>> THEN f.OIDCResourceGroupName
    ELSE f.Name \o <<"-", "o", "i", "d", "c">>
MeantAccount(f) ==
    IF f.StorageAccountName # <<>> THEN f.StorageAccountName ELSE f.Name

Nil == <<>>
Ptr(v) == <<v>>

\* the tag key "openshift.io_cloud-credential-operator_<name>"
TagKeyFor(n) == <<"openshift.io_cloud-credential-operator", "_">> \o n

\* The Tags a user-assigned identity may carry, for logical name n.  Tags is
\* a map[string]*string: a key may be absent, or map to a string or to nil.
\* Name, ID and Type of a listed identity are set by the provider and are
\* taken to be non-nil, so *identity.Name, *identity.Type and *identity.ID
\* (lines 59 and 65) do not panic.
TagChoices(n) ==
    { <<>>,
      TagKeyFor(n) :> Ptr("owned"),
      TagKeyFor(n) :> Ptr("not-owned"),
      TagKeyFor(n) :> Nil,
      TagKeyFor(OtherName(n)) :> Ptr("owned") }

IdentityNames == <<"id1", "id2", "id3", "id4">>

\* the identities of resource group g: k of them, any tags
IdentityLists(g, n) ==
    UNION { { [i \in 1..k |-> [rg |-> g, Name |-> IdentityNames[i], Tags |-> t[i]]]
              : t \in [1..k -> TagChoices(n)] }
            : k \in 0..MaxIdentities }

\* what the provider holds when the command is first invoked
Worlds(f) ==
    { [groups |-> {}, identities |-> <<>>, accounts |-> {}] }
    \cup
    { [groups |-> {MeantGroup(f)}, identities |-> ids, accounts |-> acc]
      : ids \in IdentityLists(MeantGroup(f), f.Name),
        acc \in { {}, {[rg |-> MeantGroup(f), name |-> MeantAccount(f)]} } }

----------------------------------------------------------------------------
(* The provider *)

\* the listing of resource group g, in the provider's order
Listing(g) == SelectSeq(azure.identities, LAMBDA i : i.rg = g)

\* The results a call may have.  Any call may fail ("Error").  Azure Resource
\* Manager answers a call on a resource group that does not exist with 404
\* ("NotFound"), and the delete of an identity or storage account that does
\* not exist with 204, which the SDK reports as success.
GroupResults(present) == IF present THEN {"ok", "Error"} ELSE {"NotFound", "Error"}
ResourceResults == {"ok", "Error"}

Call(op, g, n, r, page) == [op |-> op, rg |-> g, name |-> n, result |-> r, page |-> page]

----------------------------------------------------------------------------
(* The ownership test of deleteManagedIdentities *)

\* nameTagValue, found := identity.Tags[ownedTagKey]
TagFound(identity, key) == key \in DOMAIN identity.Tags

\* *nameTagValue of a nil pointer: a run-time panic
DerefPanics(identity, key) ==
    TagFound(identity, key) /\ identity.Tags[key] = Nil

\* found && *nameTagValue == ownedAzureResourceTagValue
IsOwned(identity, key) ==
    /\ TagFound(identity, key)
    /\ identity.Tags[key] # Nil
    /\ identity.Tags[key][1] = ownedAzureResourceTagValue

\* the inner loop over one page: the identities appended, and whether the
\* loop panicked on the way
RECURSIVE FilterPage(_, _)
FilterPage(page, key) ==
    IF page = <<>> THEN [panicked |-> FALSE, owned |-> <<>>]
    ELSE IF DerefPanics(Head(page), key) THEN [panicked |-> TRUE, owned |-> <<>>]
    ELSE LET rest == FilterPage(Tail(page), key)
         IN [panicked |-> rest.panicked,
             owned |-> IF IsOwned(Head(page), key)
                       THEN <<Head(page)>> \o rest.owned
                       ELSE rest.owned]

Min(a, b) == IF a <= b THEN a ELSE b

\* the next page of the pager over resource group g
NextPageOf(g) == SubSeq(Listing(g), cursor + 1, Min(cursor + PageSize, Len(Listing(g))))

----------------------------------------------------------------------------
(* The run *)

Init ==
    /\ flags \in FlagSets
    /\ DeleteOpts = flags
    /\ azure \in Worlds(flags)
    /\ pc = "cred"
    /\ outcome = "running"
    /\ fatalErr = <<>>
    /\ more = TRUE
    /\ cursor = 0
    /\ managedIdentities = <<>>
    /\ idx = 1
    /\ polls = 0
    /\ calls = <<>>
    /\ before = azure
    /\ runs = 1
    /\ prevOutcomes = <<>>

Issue(c) == calls' = Append(calls, c)

\* errors.Wrap(err, text): the context put in front of an error, with the
\* values formatted into its text (the code formats none)
Context(text, args) == [text |-> text, args |-> args]

\* log.Fatal(err): the process exits non-zero
Fatal(err) ==
    /\ outcome' = "fatal"
    /\ fatalErr' = err
    /\ pc' = "exit"

\* deleteCmd returns: the process exits zero
Return ==
    /\ outcome' = "success"
    /\ pc' = "exit"
    /\ UNCHANGED fatalErr

\* azidentity.NewDefaultAzureCredential(nil)
NewDefaultAzureCredential ==
    /\ pc = "cred"
    /\ \E r \in {"ok", "Error"} :
        /\ Issue(Call("NewDefaultAzureCredential", <<>>, <<>>, r, <<>>))
        /\ IF r = "ok"
           THEN pc' = "client" /\ UNCHANGED <<outcome, fatalErr>>
           ELSE Fatal(<<r>>)
    /\ UNCHANGED <<flags, DeleteOpts, azure, more, cursor, managedIdentities,
                   idx, polls, before, runs, prevOutcomes>>

\* azureclients.NewAzureClientWrapper(...)
NewAzureClientWrapper ==
    /\ pc = "client"
    /\ \E r \in {"ok", "Error"} :
        /\ Issue(Call("NewAzureClientWrapper", <<>>, <<>>, r, <<>>))
        /\ IF r = "ok"
           THEN pc' = "defaults" /\ UNCHANGED <<outcome, fatalErr>>
           ELSE Fatal(<<"Failed to create Azure client">>)
    /\ UNCHANGED <<flags, DeleteOpts, azure, more, cursor, managedIdentities,
                   idx, polls, before, runs, prevOutcomes>>

\* the defaulting of the two optional names
DefaultedOptsIgnoresOverride(o) ==
    [o EXCEPT !.OIDCResourceGroupName = o.Name \o oidcResourceGroupSuffix,
              !.StorageAccountName = IF o.StorageAccountName = <<>> THEN o.Name
                                     ELSE o.StorageAccountName]
DefaultedOptsClobbersName(o) ==
    LET g == IF o.OIDCResourceGroupName = <<>>
             THEN o.Name \o oidcResourceGroupSuffix
             ELSE o.OIDCResourceGroupName
    IN IF o.StorageAccountName = <<>>
       THEN [o EXCEPT !.OIDCResourceGroupName = g, !.Name = o.StorageAccountName]
       ELSE [o EXCEPT !.OIDCResourceGroupName = g]
DefaultedOpts(o) ==
    LET g == IF o.OIDCResourceGroupName = <<>>
             THEN o.Name \o oidcResourceGroupSuffix
             ELSE o.OIDCResourceGroupName
        a == IF o.StorageAccountName = <<>> THEN o.Name ELSE o.StorageAccountName
    IN [o EXCEPT !.OIDCResourceGroupName = g, !.StorageAccountName = a]

DefaultNames ==
    /\ pc = "defaults"
    /\ DeleteOpts' = DefaultedOpts(DeleteOpts)
    /\ pc' = "validate"
    /\ UNCHANGED <<flags, azure, outcome, fatalErr, more, cursor,
                   managedIdentities, idx, polls, calls, before, runs, prevOutcomes>>

\* if DeleteOpts.DeleteOIDCResourceGroup { deleteResourceGroup ... return }
SelectPathAlwaysGroup(o) == "beginDelete"
SelectPathDryRunKeepsGroup(o) ==
    IF o.DeleteOIDCResourceGroup /\ ~o.DryRun THEN "beginDelete" ELSE "list"
SelectPath(o) == IF o.DeleteOIDCResourceGroup THEN "beginDelete" ELSE "list"

\* validateStorageAccountName(DeleteOpts.StorageAccountName), then the branch
ValidateNameSkipped ==
    /\ pc = "validate"
    /\ pc' = SelectPath(DeleteOpts)
    /\ UNCHANGED <<outcome, fatalErr>>
    /\ UNCHANGED <<flags, DeleteOpts, azure, more, cursor, managedIdentities,
                   idx, polls, calls, before, runs, prevOutcomes>>
ValidateName ==
    /\ pc = "validate"
    /\ IF validateStorageAccountName(DeleteOpts.StorageAccountName)
       THEN pc' = SelectPath(DeleteOpts) /\ UNCHANGED <<outcome, fatalErr>>
       ELSE Fatal(<<"invalid storage account name">>)
    /\ UNCHANGED <<flags, DeleteOpts, azure, more, cursor, managedIdentities,
                   idx, polls, calls, before, runs, prevOutcomes>>

----------------------------------------------------------------------------
(* Path A: deleteResourceGroup *)

\* what is left of the provider's state once resource group g is deleted
WithoutGroup(g) ==
    [groups |-> azure.groups \ {g},
     identities |-> SelectSeq(azure.identities, LAMBDA i : i.rg # g),
     accounts |-> {a \in azure.accounts : a.rg # g}]

\* BeginDelete returned an error: deleteResourceGroup wraps it, deleteCmd is fatal
BeginDeleteFailedRetriesOnce(r) ==
    IF \E i \in 1..Len(calls) : calls[i].op = "BeginDelete"
    THEN Fatal(<<Context("failed to delete resource group", <<>>), r>>)
    ELSE UNCHANGED <<pc, outcome, fatalErr>>
BeginDeleteFailed(r) == Fatal(<<Context("failed to delete resource group", <<>>), r>>)

\* client.ResourceGroupsClient.BeginDelete(...)
BeginDelete ==
    /\ pc = "beginDelete"
    /\ LET g == DeleteOpts.OIDCResourceGroupName
       IN \E r \in GroupResults(g \in azure.groups) :
            /\ Issue(Call("BeginDelete", g, <<>>, r, <<>>))
            /\ IF r = "ok"
               THEN pc' = "poll" /\ UNCHANGED <<outcome, fatalErr>>
               ELSE BeginDeleteFailed(r)
    /\ UNCHANGED <<flags, DeleteOpts, azure, more, cursor, managedIdentities,
                   idx, polls, before, runs, prevOutcomes>>

\* pollerResp.PollUntilDone(...): a poll that finds the operation in progress
PollInProgressDeadline ==
    /\ pc = "poll"
    /\ polls < MaxPolls
    /\ polls' = polls + 1
    /\ Issue(Call("Poll", DeleteOpts.OIDCResourceGroupName, <<>>, "InProgress", <<>>))
    /\ Fatal(<<"context deadline exceeded">>)
    /\ UNCHANGED <<flags, DeleteOpts, azure, more, cursor,
                   managedIdentities, idx, before, runs, prevOutcomes>>
PollInProgress ==
    /\ pc = "poll"
    /\ polls < MaxPolls
    /\ polls' = polls + 1
    /\ Issue(Call("Poll", DeleteOpts.OIDCResourceGroupName, <<>>, "InProgress", <<>>))
    /\ UNCHANGED <<flags, DeleteOpts, azure, pc, outcome, fatalErr, more, cursor,
                   managedIdentities, idx, before, runs, prevOutcomes>>

\* deleteResourceGroup returned nil: deleteCmd returns
GroupDeletedFallsThrough ==
    /\ pc' = "list"
    /\ UNCHANGED <<outcome, fatalErr>>
GroupDeleted == Return

\* PollUntilDone returned an error: deleteResourceGroup returns it as it is
PollFailedIgnored(r) ==
    /\ UNCHANGED azure
    /\ Return
PollFailed(r) ==
    /\ UNCHANGED azure
    /\ Fatal(<<r>>)

\* pollerResp.PollUntilDone(...): the poll that finds a terminal state
PollTerminal ==
    /\ pc = "poll"
    /\ LET g == DeleteOpts.OIDCResourceGroupName
       IN \E r \in {"Succeeded", "Failed"} :
            /\ Issue(Call("Poll", g, <<>>, r, <<>>))
            /\ IF r = "Succeeded"
               THEN azure' = WithoutGroup(g) /\ GroupDeleted
               ELSE PollFailed(r)
    /\ UNCHANGED <<flags, DeleteOpts, more, cursor, managedIdentities,
                   idx, polls, before, runs, prevOutcomes>>

----------------------------------------------------------------------------
(* Path B: deleteManagedIdentities, then deleteStorageAccount *)

\* where deleteManagedIdentities goes once the pager has no more pages
AfterListing(found) == IF Len(found) = 0 THEN "storage" ELSE "delete"

\* NextPage returned an error: deleteManagedIdentities returns it
PageFetchFailedBreaks(r) ==
    /\ more' = FALSE
    /\ pc' = AfterListing(managedIdentities)
    /\ UNCHANGED <<outcome, fatalErr, cursor, managedIdentities>>
PageFetchFailed(r) ==
    /\ Fatal(<<r>>)
    /\ UNCHANGED <<more, cursor, managedIdentities>>

\* listManagedIdentities.NextPage(...) and the filter over the page
NextPage ==
    /\ pc = "list"
    /\ more
    /\ LET g == DeleteOpts.OIDCResourceGroupName
           key == OwnedTagKey(DeleteOpts.Name)
           page == NextPageOf(g)
           f == FilterPage(page, key)
       IN \E r \in GroupResults(g \in azure.groups) :
            IF r # "ok"
            THEN /\ Issue(Call("NextPage", g, <<>>, r, <<>>))
                 /\ PageFetchFailed(r)
            ELSE /\ Issue(Call("NextPage", g, <<>>, r, page))
                 /\ IF f.panicked
                    THEN /\ outcome' = "panic"
                         /\ pc' = "exit"
                         /\ UNCHANGED <<fatalErr, more, cursor, managedIdentities>>
                    ELSE /\ managedIdentities' = managedIdentities \o f.owned
                         /\ cursor' = cursor + Len(page)
                         /\ more' = (cursor' < Len(Listing(g)))
                         /\ pc' = IF more' THEN "list"
                                  ELSE AfterListing(managedIdentities')
                         /\ UNCHANGED <<outcome, fatalErr>>
    /\ UNCHANGED <<flags, DeleteOpts, azure, idx, polls, before, runs, prevOutcomes>>

\* what is left of the provider's state once identity n of group g is deleted
WithoutIdentity(g, n) ==
    [azure EXCEPT !.identities =
        SelectSeq(azure.identities, LAMBDA i : ~(i.rg = g /\ i.Name = n))]

\* Delete returned an error: deleteManagedIdentities returns it
IdentityDeleteFailedContinues(r) ==
    /\ idx' = idx + 1
    /\ pc' = IF idx' > Len(managedIdentities) THEN "storage" ELSE "delete"
    /\ UNCHANGED <<azure, outcome, fatalErr>>
IdentityDeleteFailed(r) ==
    /\ Fatal(<<r>>)
    /\ UNCHANGED <<azure, idx>>

\* client.UserAssignedIdentitiesClient.Delete(...) for one discovered identity
DeleteIdentity ==
    /\ pc = "delete"
    /\ idx <= Len(managedIdentities)
    /\ LET g == DeleteOpts.OIDCResourceGroupName
           n == managedIdentities[idx].Name
       IN \E r \in ResourceResults :
            /\ Issue(Call("DeleteIdentity", g, n, r, <<>>))
            /\ IF r = "ok"
               THEN /\ azure' = WithoutIdentity(g, n)
                    /\ idx' = idx + 1
                    /\ pc' = IF idx' > Len(managedIdentities) THEN "storage" ELSE "delete"
                    /\ UNCHANGED <<outcome, fatalErr>>
               ELSE IdentityDeleteFailed(r)
    /\ UNCHANGED <<flags, DeleteOpts, more, cursor, managedIdentities,
                   polls, before, runs, prevOutcomes>>

\* Delete returned an error: deleteStorageAccount wraps it, deleteCmd is fatal
StorageDeleteFailedIgnored(r) ==
    /\ UNCHANGED azure
    /\ Return
StorageDeleteFailed(r) ==
    /\ UNCHANGED azure
    /\ Fatal(<<Context("failed to delete storage account", <<>>), r>>)

\* deleteStorageAccount: client.StorageAccountClient.Delete(...)
DeleteStorageAccount ==
    /\ pc = "storage"
    /\ LET g == DeleteOpts.OIDCResourceGroupName
           a == DeleteOpts.StorageAccountName
           acct == [rg |-> g, name |-> a]
       IN \E r \in ResourceResults :
            /\ Issue(Call("DeleteStorageAccount", g, a, r, <<>>))
            /\ IF r = "ok"
               THEN azure' = [azure EXCEPT !.accounts = @ \ {acct}] /\ Return
               ELSE StorageDeleteFailed(r)
    /\ UNCHANGED <<flags, DeleteOpts, more, cursor, managedIdentities,
                   idx, polls, before, runs, prevOutcomes>>

----------------------------------------------------------------------------
(* The operator re-invokes the command with the same flags *)

Reinvoke ==
    /\ pc = "exit"
    /\ runs < MaxRuns
    /\ runs' = runs + 1
    /\ prevOutcomes' = Append(prevOutcomes, outcome)
    /\ DeleteOpts' = flags
    /\ pc' = "cred"
    /\ outcome' = "running"
    /\ fatalErr' = <<>>
    /\ more' = TRUE
    /\ cursor' = 0
    /\ managedIdentities' = <<>>
    /\ idx' = 1
    /\ polls' = 0
    /\ calls' = <<>>
    /\ before' = azure
    /\ UNCHANGED <<flags, azure>>

Next ==
    \/ NewDefaultAzureCredential
    \/ NewAzureClientWrapper
    \/ DefaultNames
    \/ ValidateName
    \/ BeginDelete
    \/ PollInProgress
    \/ PollTerminal
    \/ NextPage
    \/ DeleteIdentity
    \/ DeleteStorageAccount
    \/ Reinvoke

Spec == Init /\ [][Next]_vars

\* deleteCmd is one sequential thread: while it has a next step it takes it,
\* every remote call returns, and the provider does not report "in progress"
\* for ever.  The operator need not re-invoke the command.
RunStep ==
    \/ NewDefaultAzureCredential
    \/ NewAzureClientWrapper
    \/ DefaultNames
    \/ ValidateName
    \/ BeginDelete
    \/ PollTerminal
    \/ NextPage
    \/ DeleteIdentity
    \/ DeleteStorageAccount

FairSpec == Init /\ [][Next]_vars /\ WF_vars(RunStep)

----------------------------------------------------------------------------
(* What a run has done, read off its call log *)

Issued(op) == \E i \in 1..Len(calls) : calls[i].op = op
IssuedOk(op) == \E i \in 1..Len(calls) : calls[i].op = op /\ calls[i].result = "ok"
Failed(c) == c.result \in {"Error", "NotFound", "Failed"}
SomeCallFailed == \E i \in 1..Len(calls) : Failed(calls[i])
Ended == pc = "exit"

\* the names for which an identity delete call was issued
DeleteIssuedFor == {calls[i].name : i \in {j \in 1..Len(calls) : calls[j].op = "DeleteIdentity"}}
DeletedOk ==
    {calls[i].name : i \in {j \in 1..Len(calls) :
        calls[j].op = "DeleteIdentity" /\ calls[j].result = "ok"}}

\* the identities the resource group named by the flags held when the run
\* started, and those of them tagged as owned under the flags' logical name
ListedBefore == SelectSeq(before.identities, LAMBDA i : i.rg = MeantGroup(flags))
CarriesOwnedTag(i) ==
    /\ TagKeyFor(flags.Name) \in DOMAIN i.Tags
    /\ i.Tags[TagKeyFor(flags.Name)] = Ptr("owned")
OwnedBefore ==
    {ListedBefore[k].Name : k \in {j \in 1..Len(ListedBefore) : CarriesOwnedTag(ListedBefore[j])}}

----------------------------------------------------------------------------
(* C1: path exclusivity.  In a run with DeleteOIDCResourceGroup set, no    *)
(* page of the managed-identity listing is fetched, no managed identity is *)
(* deleted and no storage account is deleted, whatever the other flags are *)
(* and however the resource-group deletion ends.                           *)
PathExclusivity ==
    flags.DeleteOIDCResourceGroup =>
        /\ ~Issued("NextPage")
        /\ ~Issued("DeleteIdentity")
        /\ ~Issued("DeleteStorageAccount")

\* the group path ran to its end, with a storage-account override given
PathExclusivityWitness ==
    /\ flags.DeleteOIDCResourceGroup
    /\ flags.StorageAccountName # <<>>
    /\ Ended
    /\ outcome = "success"
    /\ before.identities # <<>>

(* C2: ordering on the fine-grained path.  When the storage-account delete *)
(* is issued, every discovered identity has had its delete issued, each of *)
(* them succeeded and nothing before it failed; after a failed page fetch  *)
(* or identity delete the storage-account delete is never issued.          *)
StorageAfterIdentities ==
    /\ \A i \in 1..Len(calls) :
        calls[i].op = "DeleteStorageAccount" =>
            /\ \A j \in 1..(i - 1) : ~Failed(calls[j])
            /\ \A k \in 1..Len(managedIdentities) :
                \E j \in 1..(i - 1) :
                    /\ calls[j].op = "DeleteIdentity"
                    /\ calls[j].name = managedIdentities[k].Name
                    /\ calls[j].result = "ok"
            /\ \A j \in (i + 1)..Len(calls) : calls[j].op # "DeleteIdentity"
    /\ (\E j \in 1..Len(calls) :
            calls[j].op \in {"NextPage", "DeleteIdentity"} /\ Failed(calls[j]))
        => ~Issued("DeleteStorageAccount")

\* the storage account was deleted after two identities were
StorageAfterIdentitiesWitness ==
    /\ Issued("DeleteStorageAccount")
    /\ Len(managedIdentities) >= 2

(* C3: tag-based ownership.  In a run of the fine-grained path that has    *)
(* ended with every remote call succeeding, the identities for which a     *)
(* delete was issued are exactly those of the listing that map the key     *)
(* prefix_<Name> to "owned"; no other identity is ever deleted.            *)
TagBasedOwnership ==
    /\ DeleteIssuedFor \subseteq OwnedBefore
    /\ (~flags.DeleteOIDCResourceGroup /\ Issued("NextPage") /\ Ended /\ ~SomeCallFailed)
        => DeleteIssuedFor = OwnedBefore

(* C4: discovery is all-or-nothing.  Once a page fetch has failed the run  *)
(* has ended with an error and has issued neither an identity delete nor   *)
(* the storage-account delete, also when earlier pages held owned          *)
(* identities.                                                             *)
DiscoveryAllOrNothing ==
    (\E i \in 1..Len(calls) : calls[i].op = "NextPage" /\ Failed(calls[i])) =>
        /\ outcome = "fatal"
        /\ Ended
        /\ ~Issued("DeleteIdentity")
        /\ ~Issued("DeleteStorageAccount")

\* a later page failed after an owned identity had been found
DiscoveryAllOrNothingWitness ==
    /\ \E i \in 1..Len(calls) : calls[i].op = "NextPage" /\ Failed(calls[i])
    /\ managedIdentities # <<>>

(* C5: pre-flight validation.  A mutating call is only issued with the     *)
(* names defaulted and the storage-account name valid; when the defaulted  *)
(* storage-account name is invalid (length outside 3..24, or a character   *)
(* that is no lowercase letter or digit) the run gets no further than the  *)
(* validation, ends with an error and issues no BeginDelete, identity      *)
(* delete or storage-account delete, on either path.                       *)
MutatingOps == {"BeginDelete", "DeleteIdentity", "DeleteStorageAccount"}

PreflightValidation ==
    /\ (\E i \in 1..Len(calls) : calls[i].op \in MutatingOps) =>
        /\ DeleteOpts.OIDCResourceGroupName = MeantGroup(flags)
        /\ DeleteOpts.StorageAccountName = MeantAccount(flags)
        /\ validateStorageAccountName(DeleteOpts.StorageAccountName)
    /\ ~validateStorageAccountName(MeantAccount(flags)) =>
        /\ \A i \in 1..Len(calls) :
            calls[i].op \in {"NewDefaultAzureCredential", "NewAzureClientWrapper"}
        /\ pc \in {"cred", "client", "defaults", "validate", "exit"}
        /\ Ended => outcome = "fatal"

\* an invalid name stopped a run that was to delete the resource group
PreflightValidationWitness ==
    /\ ~validateStorageAccountName(MeantAccount(flags))
    /\ flags.DeleteOIDCResourceGroup
    /\ Ended
    /\ fatalErr = <<"invalid storage account name">>
    /\ MeantGroup(flags) \in azure.groups

(* C6: idempotence.  A run that follows a successful run with the same     *)
(* flags, and in which no call fails for a reason other than its target    *)
(* being absent, also ends in success.                                     *)
SecondRunSucceeds ==
    (/\ runs >= 2
     /\ prevOutcomes[runs - 1] = "success"
     /\ Ended
     /\ \A i \in 1..Len(calls) : calls[i].result # "Error")
        => outcome = "success"

(* C7: dry run.  In a run with --dry-run set no resource-group delete, no  *)
(* identity delete and no storage-account delete is issued.                *)
DryRunSkipsDeletes ==
    flags.DryRun => \A i \in 1..Len(calls) : calls[i].op \notin MutatingOps

(* C8: exit behaviour.  A run in which a step failed (credential, client,  *)
(* validation, a page fetch, a delete, the poll) ends in the failure       *)
(* outcome; a run ends in success only if the selected path completed: on  *)
(* the group path BeginDelete succeeded and the poll confirmed completion, *)
(* on the fine-grained path every owned identity of the listing was        *)
(* deleted and the storage account was deleted.                            *)
ExitBehaviour ==
    /\ SomeCallFailed => (Ended /\ outcome = "fatal")
    /\ (~validateStorageAccountName(MeantAccount(flags)) /\ Ended) => outcome # "success"
    /\ Ended => outcome \in {"success", "fatal", "panic"}
    /\ outcome = "success" =>
        /\ Ended
        /\ ~SomeCallFailed
        /\ IF flags.DeleteOIDCResourceGroup
           THEN /\ IssuedOk("BeginDelete")
                /\ calls[Len(calls)].op = "Poll"
                /\ calls[Len(calls)].result = "Succeeded"
           ELSE /\ OwnedBefore \subseteq DeletedOk
                /\ calls[Len(calls)].op = "DeleteStorageAccount"
                /\ calls[Len(calls)].result = "ok"

\* a fine-grained run that deleted an identity and ended in success
ExitBehaviourWitness ==
    /\ outcome = "success"
    /\ ~flags.DeleteOIDCResourceGroup
    /\ DeletedOk # {}

(* C9: the resource group is kept unless its deletion was asked for.  In a *)
(* run without DeleteOIDCResourceGroup no BeginDelete is issued.           *)
GroupKeptByDefault ==
    ~flags.DeleteOIDCResourceGroup => ~Issued("BeginDelete")

\* a fine-grained run on an explicitly named resource group ended in success
GroupKeptByDefaultWitness ==
    /\ ~flags.DeleteOIDCResourceGroup
    /\ flags.OIDCResourceGroupName # <<>>
    /\ outcome = "success"
    /\ MeantGroup(flags) \in azure.groups

(* C10: an empty discovery is no error.  On the fine-grained path, once    *)
(* every page of the listing has been fetched successfully and no identity *)
(* carries the owned tag, no identity delete is issued and the run goes on *)
(* to the storage-account delete.                                          *)
AllPagesFetched ==
    /\ Issued("NextPage")
    /\ \A i \in 1..Len(calls) : calls[i].op = "NextPage" => calls[i].result = "ok"
    /\ \A k \in 1..Len(ListedBefore) :
        \E i \in 1..Len(calls) :
            /\ calls[i].op = "NextPage"
            /\ \E j \in 1..Len(calls[i].page) : calls[i].page[j] = ListedBefore[k]

EmptyDiscoveryProceeds ==
    (AllPagesFetched /\ OwnedBefore = {}) =>
        /\ ~Issued("DeleteIdentity")
        /\ pc = "storage" \/ Issued("DeleteStorageAccount")


(* C11: waiter success.  The group path reports success only once          *)
(* BeginDelete has succeeded and a later poll has found the operation      *)
(* completed; while the operation is in progress the run is still waiting, *)
(* and after a poll that found a terminal failure the run has failed.      *)
IsPoll(i, r) == calls[i].op = "Poll" /\ calls[i].result = r

WaiterSuccess ==
    /\ (flags.DeleteOIDCResourceGroup /\ outcome = "success") =>
        \E b, p \in 1..Len(calls) :
            /\ b < p
            /\ calls[b].op = "BeginDelete" /\ calls[b].result = "ok"
            /\ IsPoll(p, "Succeeded")
            /\ p = Len(calls)
            /\ \A i \in 1..Len(calls) : ~IsPoll(i, "Failed")
    /\ (calls # <<>> /\ IsPoll(Len(calls), "InProgress")) =>
        (pc = "poll" /\ outcome = "running")
    /\ (\E i \in 1..Len(calls) : IsPoll(i, "Failed")) => outcome = "fatal"

\* success was reported after a poll that had found the deletion in progress
WaiterSuccessWitness ==
    /\ flags.DeleteOIDCResourceGroup
    /\ outcome = "success"
    /\ \E i \in 1..Len(calls) : IsPoll(i, "InProgress")


(* C12: the identity loop fails fast and does not roll back.  A failed     *)
(* identity delete is the last call of its run: no later identity of the   *)
(* discovered list gets a delete, the run ends fatally, the identities     *)
(* deleted before it are still gone, and no call that would create         *)
(* anything is ever issued.                                                *)
KnownOps ==
    {"NewDefaultAzureCredential", "NewAzureClientWrapper", "BeginDelete", "Poll",
     "NextPage", "DeleteIdentity", "DeleteStorageAccount"}

StillListed(n) ==
    \E k \in 1..Len(azure.identities) :
        azure.identities[k].rg = MeantGroup(flags) /\ azure.identities[k].Name = n

FailFastNoRollback ==
    /\ \A i \in 1..Len(calls) :
        (calls[i].op = "DeleteIdentity" /\ Failed(calls[i])) =>
            /\ i = Len(calls)
            /\ Ended
            /\ outcome = "fatal"
            /\ \A k \in (idx + 1)..Len(managedIdentities) :
                managedIdentities[k].Name \notin DeleteIssuedFor
    /\ \A n \in DeletedOk : ~StillListed(n)
    /\ \A i \in 1..Len(calls) : calls[i].op \in KnownOps

\* the second identity's delete failed after the first had been deleted
FailFastNoRollbackWitness ==
    /\ Ended
    /\ calls # <<>>
    /\ calls[Len(calls)].op = "DeleteIdentity"
    /\ Failed(calls[Len(calls)])
    /\ DeletedOk # {}


(* C13: no local retry.  Within one run no mutating call is issued twice   *)
(* for the same target: at most one BeginDelete, at most one delete per    *)
(* identity, at most one storage-account delete; and a call that failed is *)
(* the last call of the run.                                               *)
NoLocalRetry ==
    /\ \A i, j \in 1..Len(calls) :
        (/\ i # j
         /\ calls[i].op \in MutatingOps
         /\ calls[i].op = calls[j].op)
            => <<calls[i].rg, calls[i].name>> # <<calls[j].rg, calls[j].name>>
    /\ \A i \in 1..Len(calls) : Failed(calls[i]) => i = Len(calls)

\* a run whose BeginDelete failed has ended
NoLocalRetryWitness ==
    /\ Ended
    /\ calls # <<>>
    /\ calls[Len(calls)].op = "BeginDelete"
    /\ Failed(calls[Len(calls)])


(* C14: derived names address every call.  Every page fetch, identity      *)
(* delete, storage-account delete, BeginDelete and poll of a run names the *)
(* resource group given by --oidc-resource-group-name, or Name followed by *)
(* the fixed suffix when that flag is empty; the storage account deleted   *)
(* is the one given by --storage-account-name, or Name when that flag is   *)
(* empty.  No call names another resource group or storage account.        *)
GroupScopedOps == {"BeginDelete", "Poll", "NextPage", "DeleteIdentity", "DeleteStorageAccount"}

DerivedNamesAddressCalls ==
    \A i \in 1..Len(calls) :
        /\ calls[i].op \in GroupScopedOps =>
            calls[i].rg = (IF flags.OIDCResourceGroupName # <<>>
                           THEN flags.OIDCResourceGroupName
                           ELSE flags.Name \o <<"-", "o", "i", "d", "c">>)
        /\ calls[i].op = "DeleteStorageAccount" =>
            calls[i].name = (IF flags.StorageAccountName # <<>>
                             THEN flags.StorageAccountName
                             ELSE flags.Name)

\* with the group name defaulted and the storage account named explicitly,
\* an identity and then the storage account were deleted
DerivedNamesAddressCallsWitness ==
    /\ flags.OIDCResourceGroupName = <<>>
    /\ flags.StorageAccountName # <<>>
    /\ IssuedOk("DeleteIdentity")
    /\ IssuedOk("DeleteStorageAccount")


(* C15: the ownership test is total.  For every identity of a fetched      *)
(* page, whatever its tags are (none, the key absent, the key mapped to    *)
(* another value or to no value), the test answers: the identity is kept   *)
(* for deletion exactly when the owned key maps to "owned"; the test never *)
(* aborts the run.                                                         *)
FetchedIdentities ==
    UNION { {calls[i].page[j] : j \in 1..Len(calls[i].page)}
            : i \in {k \in 1..Len(calls) : calls[k].op = "NextPage" /\ calls[k].result = "ok"} }

OwnershipTestTotal ==
    /\ outcome # "panic"
    /\ {managedIdentities[k] : k \in 1..Len(managedIdentities)}
        = {i \in FetchedIdentities : CarriesOwnedTag(i)}


(* C16: termination.  The wait of the group path is ended by nothing but a *)
(* poll that finds a terminal state, and that poll ends the run; and, with *)
(* every remote call returning and the provider's operation reaching a     *)
(* terminal state, every run that has started ends in the success or the   *)
(* failure outcome.                                                        *)
TerminalPollIn(log) ==
    /\ log # <<>>
    /\ log[Len(log)].op = "Poll"
    /\ log[Len(log)].result \in {"Succeeded", "Failed"}

Termination ==
    /\ [][(pc = "poll") => ((pc' # "poll") <=> TerminalPollIn(calls'))]_vars
    /\ (outcome = "running") ~> (pc = "exit" /\ outcome \in {"success", "fatal", "panic"})

\* a run of the group path ended after a poll had found the deletion in progress
TerminationWitness ==
    /\ Ended
    /\ TerminalPollIn(calls)
    /\ polls > 0


----------------------------------------------------------------------------
(* deleteCmd as a function of its inputs: the flags, the provider's state  *)
(* and the answers the provider gives, call by call.  It is used to run    *)
(* the command a second time on other flags against the same provider.     *)

ListingIn(az, g) == SelectSeq(az.identities, LAMBDA i : i.rg = g)

Started(f, az) ==
    [pc |-> "cred", outcome |-> "running", opts |-> f, az |-> az, more |-> TRUE,
     cursor |-> 0, found |-> <<>>, idx |-> 1, calls |-> <<>>]

Exits(s, how) == [s EXCEPT !.pc = "exit", !.outcome = how]
Logs(s, c) == [s EXCEPT !.calls = Append(@, c)]

\* lines 111-126: the steps between client construction and the first call
LocalSteps(s) ==
    IF s.pc # "defaults" THEN s
    ELSE LET o == DefaultedOpts(s.opts)
         IN IF validateStorageAccountName(o.StorageAccountName)
            THEN [s EXCEPT !.opts = o, !.pc = SelectPath(o)]
            ELSE Exits([s EXCEPT !.opts = o], "fatal")

\* the call the run is about to make, answered with r
CallStep(s, r) ==
    LET g == s.opts.OIDCResourceGroupName
    IN CASE s.pc = "cred" ->
              LET t == Logs(s, Call("NewDefaultAzureCredential", <<>>, <<>>, r, <<>>))
              IN IF r = "ok" THEN [t EXCEPT !.pc = "client"] ELSE Exits(t, "fatal")
         [] s.pc = "client" ->
              LET t == Logs(s, Call("NewAzureClientWrapper", <<>>, <<>>, r, <<>>))
              IN IF r = "ok" THEN [t EXCEPT !.pc = "defaults"] ELSE Exits(t, "fatal")
         [] s.pc = "beginDelete" ->
              LET t == Logs(s, Call("BeginDelete", g, <<>>, r, <<>>))
              IN IF r = "ok" THEN [t EXCEPT !.pc = "poll"] ELSE Exits(t, "fatal")
         [] s.pc = "poll" ->
              LET t == Logs(s, Call("Poll", g, <<>>, r, <<>>))
              IN IF r = "InProgress" THEN t
                 ELSE IF r = "Succeeded"
                 THEN Exits([t EXCEPT !.az =
                                [groups |-> s.az.groups \ {g},
                                 identities |-> SelectSeq(s.az.identities, LAMBDA i : i.rg # g),
                                 accounts |-> {a \in s.az.accounts : a.rg # g}]],
                            "success")
                 ELSE Exits(t, "fatal")
         [] s.pc = "list" ->
              LET all == ListingIn(s.az, g)
                  page == SubSeq(all, s.cursor + 1, Min(s.cursor + PageSize, Len(all)))
                  f == FilterPage(page, OwnedTagKey(s.opts.Name))
                  found == s.found \o f.owned
                  cur == s.cursor + Len(page)
              IN IF r # "ok" THEN Exits(Logs(s, Call("NextPage", g, <<>>, r, <<>>)), "fatal")
                 ELSE IF f.panicked
                 THEN Exits(Logs(s, Call("NextPage", g, <<>>, r, page)), "panic")
                 ELSE [Logs(s, Call("NextPage", g, <<>>, r, page)) EXCEPT
                          !.found = found, !.cursor = cur, !.more = (cur < Len(all)),
                          !.pc = IF cur < Len(all) THEN "list" ELSE AfterListing(found)]
         [] s.pc = "delete" ->
              LET n == s.found[s.idx].Name
                  t == Logs(s, Call("DeleteIdentity", g, n, r, <<>>))
              IN IF r = "ok"
                 THEN [t EXCEPT
                          !.az.identities = SelectSeq(@, LAMBDA i : ~(i.rg = g /\ i.Name = n)),
                          !.idx = s.idx + 1,
                          !.pc = IF s.idx + 1 > Len(s.found) THEN "storage" ELSE "delete"]
                 ELSE Exits(t, "fatal")
         [] s.pc = "storage" ->
              LET a == s.opts.StorageAccountName
                  t == Logs(s, Call("DeleteStorageAccount", g, a, r, <<>>))
              IN IF r = "ok"
                 THEN Exits([t EXCEPT !.az.accounts = @ \ {[rg |-> g, name |-> a]}], "success")
                 ELSE Exits(t, "fatal")
         [] OTHER -> s

\* the run from s under the answers given, as far as they go
RECURSIVE Replay(_, _)
Replay(s, answers) ==
    LET t == LocalSteps(s)
    IN IF answers = <<>> \/ t.pc = "exit" THEN t
       ELSE Replay(CallStep(t, Head(answers)), Tail(answers))

\* the answers the provider has given in this run
Answers == [i \in 1..Len(calls) |-> calls[i].result]

(* C17: the dry-run option is not consulted.  The run of the command on    *)
(* the same flags with DryRun negated, against the same provider state and *)
(* given the same answers, issues the same calls in the same order and,    *)
(* when this run has ended, has ended in the same outcome and has left the *)
(* provider in the same state.                                             *)
TwinRun == Replay(Started([flags EXCEPT !.DryRun = ~@], before), Answers)

ConfigReadOnly == DeleteOpts = flags

(* C18 as amended: no step of deleteCmd changes Name, Region,              *)
(* SubscriptionID, DeleteOIDCResourceGroup or DryRun, nor an optional name *)
(* that was given; the only change is the defaulting, which fills an empty *)
(* OIDCResourceGroupName with Name plus the suffix and an empty            *)
(* StorageAccountName with Name, once, before validation; from then on no  *)
(* field changes.                                                          *)
FixedFields == {"Name", "Region", "SubscriptionID", "DeleteOIDCResourceGroup", "DryRun"}

ConfigChangedOnlyByDefaulting ==
    /\ \A f \in FixedFields : DeleteOpts[f] = flags[f]
    /\ flags.OIDCResourceGroupName # <<>> =>
        DeleteOpts.OIDCResourceGroupName = flags.OIDCResourceGroupName
    /\ flags.StorageAccountName # <<>> =>
        DeleteOpts.StorageAccountName = flags.StorageAccountName
    /\ pc \in {"cred", "client", "defaults"} => DeleteOpts = flags
    /\ (pc \notin {"cred", "client", "defaults"} /\ ~Ended) =>
        /\ DeleteOpts.OIDCResourceGroupName = MeantGroup(flags)
        /\ DeleteOpts.StorageAccountName = MeantAccount(flags)
    /\ Ended =>
        \/ DeleteOpts = flags
        \/ /\ DeleteOpts.OIDCResourceGroupName = MeantGroup(flags)
           /\ DeleteOpts.StorageAccountName = MeantAccount(flags)

\* a run ended with both optional names filled in by the defaulting
ConfigChangedOnlyByDefaultingWitness ==
    /\ Ended
    /\ outcome = "success"
    /\ flags.OIDCResourceGroupName = <<>>
    /\ flags.StorageAccountName = <<>>
    /\ DeleteOpts.OIDCResourceGroupName # <<>>
    /\ DeleteOpts.StorageAccountName = flags.Name


(* C19: resource-group deletion errors carry context.  Whenever the        *)
(* resource-group deletion has failed, at BeginDelete or at a poll that    *)
(* found a terminal failure, what is reported is the provider's error      *)
(* wrapped in added context, and that context names the resource group.    *)
GroupDeletionFailed ==
    /\ calls # <<>>
    /\ calls[Len(calls)].op \in {"BeginDelete", "Poll"}
    /\ Failed(calls[Len(calls)])

GroupErrorsCarryContext ==
    GroupDeletionFailed =>
        /\ outcome = "fatal"
        /\ Len(fatalErr) >= 2
        /\ fatalErr[Len(fatalErr)] = calls[Len(calls)].result
        /\ \E k \in 1..(Len(fatalErr) - 1) :
            \E j \in 1..Len(fatalErr[k].args) :
                fatalErr[k].args[j] = DeleteOpts.OIDCResourceGroupName

====
